---- MODULE Spec2Model ----
(***************************************************************************)
(* State-machine model of the news monitor: the fetch engine               *)
(* (scraper.fetch_news_html / _fetch_with_curl_cffi), the payload          *)
(* extractor (scraper.parse_news), the archive (storage.NewsArchive), the  *)
(* notifier (discord.send_news) and the orchestration                      *)
(* (service.MonitorService.run_once / run_forever).                        *)
(***************************************************************************)
EXTENDS Integers, Sequences, FiniteSets, TLC

\* ------------------------------------------------------------------ bounds

\* largest value of the `attempts` parameter of fetch_news_html explored
MaxAttempts == 3
\* number of runs of run_once explored on one archive
MaxRuns == 3
\* longest list of records record_items is called with on its own
MaxBatch == 2
\* largest number of nodes in the news list of a payload parse_news is applied to
MaxNodes == 3
\* longest list of new records handed to the notifier on its own
MaxNews == 21
\* largest number of nodes in a payload whose urls are normalised
MaxUrls == 2

\* ------------------------------------------------------- program constants

DEFAULT_ATTEMPTS == 4
MAX_EMBEDS_PER_REQUEST == 10
BASE_URL == "https://www.europeantour.com"
PLAYER_NEWS_URL == "https://www.europeantour.com/players/marcel-schneider-35703/news?tour=dpworld-tour"

None == "None"

\* ------------------------------------------------------------- environment

\* final HTTP status codes the site answers with (both sides of the 400 line)
Statuses == {200, 399, 400, 403, 503}
\* transport / protocol exceptions a GET can raise
TransportErrors == {"ConnectionError", "Timeout"}
Strategies == {"curl_cffi", "cloudscraper"}
\* what a GET ends in: a response with a final status, or an exception
Outcomes ==
    {[kind |-> "response", status |-> st] : st \in Statuses}
        \cup {[kind |-> e, status |-> 0] : e \in TransportErrors}
Raises(o) == o.kind \in TransportErrors

VARIABLES
    pc,             \* position of the (single) thread of control
    raised,         \* exception propagating out of the current call, or NoError
    raisedIn,       \* the call that raised the last exception of the process (history)
    curl_requests,  \* scraper.curl_requests: TRUE iff curl_cffi was importable
    attempts,       \* parameter `attempts` of fetch_news_html
    strategy,       \* strategy being run: "curl_cffi" | "cloudscraper" | None
    attempt,        \* loop variable `attempt` of the running strategy
    last_error,     \* local `last_error` of the running strategy
    errors,         \* local `errors` of fetch_news_html
    html,           \* value returned by fetch_news_html, or None
    \* history of the current fetch_news_html call (not read by the program)
    made,           \* [strategy -> number of attempts started]
    failed,         \* number of attempts that ended in a failure
    okResponses,    \* number of target responses with status < 400 received
    lastFailure,    \* what made the most recent failed attempt fail
    target403,      \* [strategy -> number of target responses with status 403]
    warmup,         \* outcome of the warm-up GET of the current attempt
    targetDone,     \* the target GET of the current attempt was issued
    sleeps,         \* the backoff sleeps taken: strategy, attempt, deterministic term
    slept,          \* duration of the most recent backoff sleep, in milliseconds
    \* process and configuration (__main__.main, MonitorService.__init__)
    once,           \* args.once
    dry_run,        \* MonitorService._dry_run
    ledger_path,    \* MonitorService._ledger_path is set
    runs,           \* number of run_once calls started so far
    clock,          \* the wall clock, in seconds
    \* persistent state
    archive,        \* the rows of table `news` (committed)
    ledger,         \* the lines of the JSONL ledger file
    \* locals of run_once / record_items / send_news
    items,          \* `items` returned by fetch_news
    payload,        \* `payload` returned by fetch_news
    new_items,      \* `new_items` of run_once
    batch,          \* parameter `items` of record_items
    idx,            \* position of the running loop (inserts, chunks)
    now,            \* `now` of record_items
    conn,           \* the open connection of record_items: its uncommitted view
    \* history of the current run (not read by the program)
    archiveAtCheck, \* the archive when has_item was asked
    archiveAtCall,  \* the archive when record_items was called
    written,        \* record_items returned normally in this run
    handed,         \* arguments of the send_news calls of this run
    posts,          \* chunks the webhook accepted in this run
    \* a caller of NewsArchive.record_items other than run_once (history)
    afterFirst,     \* the table after that caller's first call returned
    \* history across the runs on one archive (not read by the program)
    notifications,  \* [identifier -> number of send_news calls whose list held it]
    missed          \* identifiers an earlier run archived and no accepted request carried

fetchVars == <<curl_requests, attempts, strategy, attempt, last_error, errors, html>>
fetchHist ==
    <<made, failed, okResponses, lastFailure, target403, warmup, targetDone, sleeps, slept>>
cfgVars == <<once, dry_run, ledger_path>>
driverVars == <<runs, clock>>
storeVars == <<archive, ledger>>
runVars == <<items, payload, new_items, batch, idx, now, conn>>
runHist == <<archiveAtCheck, archiveAtCall, written, handed, posts>>
crossRuns == <<notifications, missed>>
serviceVars == <<cfgVars, driverVars, storeVars, runVars, runHist, afterFirst, crossRuns>>

\* ------------------------------------------------------------------ errors

\* An exception is its class and str(exc).
Exc(type, text, status, url) ==
    [type |-> type, msg |-> [text |-> text, status |-> status, url |-> url]]

\* FetchError(f"Failed to retrieve news (status {status}) from {PLAYER_NEWS_URL}")
StatusFetchError(status) ==
    Exc("FetchError", "Failed to retrieve news (status) from", status, PLAYER_NEWS_URL)

\* the exception a session.get / scraper.get raises
TransportException(kind) == Exc(kind, kind, 0, "")

\* FetchError(f"Failed to retrieve news from {PLAYER_NEWS_URL}")
GenericFetchError == Exc("FetchError", "Failed to retrieve news from", 0, PLAYER_NEWS_URL)

\* `last_error: Exception | None = None`, and no exception propagating
NoError == Exc(None, "", 0, "")

\* raise FetchError(str(last_error)) from last_error, or the generic one
GenericExhausted(err) == GenericFetchError
ExhaustedError(err) ==
    IF err # NoError THEN [type |-> "FetchError", msg |-> err.msg] ELSE GenericFetchError

\* `for attempt in range(1, attempts + 1)`: another iteration follows attempt k
OneAttemptShort(k, n) == k + 1 < n
HasNext(k, n) == k < n

\* `status_code >= 400`
StrictlyAbove400(status) == status > 400
IsErrorStatus(status) == status >= 400

\* -------------------------------------------------------------- JSON trees

\* A JSON value is tagged by its type; a mapping keeps its keys in document order.
Str(s) == [t |-> "str", s |-> s]
Lst(xs) == [t |-> "list", items |-> xs]
Dct(es) == [t |-> "dict", entries |-> es]
Null == [t |-> "null"]
KV(k, v) == [k |-> k, v |-> v]

\* Python truthiness of a JSON value
Truthy(v) ==
    CASE v.t = "str" -> v.s # ""
      [] v.t = "list" -> v.items # <<>>
      [] v.t = "dict" -> v.entries # <<>>
      [] OTHER -> FALSE

Keys(obj) == {obj.entries[i].k : i \in 1..Len(obj.entries)}
Get(obj, key) == obj.entries[CHOOSE i \in 1..Len(obj.entries) : obj.entries[i].k = key].v

\* _extract_first(obj, *keys): the first key present with a truthy value, else None
RECURSIVE _extract_first(_, _)
_extract_first(obj, keys) ==
    IF keys = <<>> THEN Null
    ELSE IF Head(keys) \in Keys(obj) /\ Truthy(Get(obj, Head(keys)))
         THEN Get(obj, Head(keys))
         ELSE _extract_first(obj, Tail(keys))

\* ------------------------------------------------------------ text helpers

\* str.lower() on the keys that occur in payloads
Lower(k) ==
    CASE k = "Title" -> "title"
      [] k = "publishDate" -> "publishdate"
      [] k = "publishDateTime" -> "publishdatetime"
      [] k = "urlSlug" -> "urlslug"
      [] k = "canonicalSlug" -> "canonicalslug"
      [] OTHER -> k

\* str.strip() on the texts that occur in payloads
Strip(x) ==
    CASE x = " t1 " -> "t1"
      [] x = " " -> ""
      [] OTHER -> x

\* str(value)
StrOf(v) ==
    CASE v.t = "str" -> v.s
      [] v.t = "list" -> "[...]"
      [] v.t = "dict" -> "{...}"
      [] OTHER -> "None"

\* ------------------------------------------------------------------ datetime

\* A datetime: wall-clock fields (inst, in whole seconds, and us, the microseconds),
\* and tzinfo (aware with offset off, or naive).
DT(inst, us, aware, off) == [inst |-> inst, us |-> us, aware |-> aware, off |-> off]
Naive(inst, us) == DT(inst, us, FALSE, 0)

\* What strptime / fromisoformat make of the timestamp texts that occur in payloads:
\* fmt is the first pattern of _parse_datetime that matches ("iso" when only
\* datetime.fromisoformat accepts the text, "none" when nothing does).
DateSyntax(x) ==
    CASE x = "2024-01-01T00:00:00" -> [fmt |-> "%Y-%m-%dT%H:%M:%S", dt |-> Naive(1, 0)]
      [] x = "2024-02-01T00:00:00" -> [fmt |-> "%Y-%m-%dT%H:%M:%S", dt |-> Naive(2, 0)]
      [] x = "2024-03-05T00:00:00" -> [fmt |-> "%Y-%m-%dT%H:%M:%S", dt |-> Naive(3, 0)]
      [] x = "2024-03-05T00:00:00.500000" -> [fmt |-> "%Y-%m-%dT%H:%M:%S.%f", dt |-> Naive(3, 500000)]
      [] x = "2024-03-05T01:00:00+01:00" -> [fmt |-> "%Y-%m-%dT%H:%M:%S%z", dt |-> DT(4, 0, TRUE, 1)]
      [] x = "2024-03-05T00:00:00Z" -> [fmt |-> "%Y-%m-%dT%H:%M:%S%z", dt |-> DT(3, 0, TRUE, 0)]
      [] x = "2024-03-05T01:00+01:00" -> [fmt |-> "iso", dt |-> DT(4, 0, TRUE, 1)]
      [] x = "2024-03-05" -> [fmt |-> "iso", dt |-> Naive(3, 0)]
      [] OTHER -> [fmt |-> "none", dt |-> Naive(0, 0)]

StrptimeFormats == {"%Y-%m-%dT%H:%M:%S%z", "%Y-%m-%dT%H:%M:%S.%f%z",
                    "%Y-%m-%dT%H:%M:%S", "%Y-%m-%dT%H:%M:%S.%f"}

\* dt.astimezone(timezone.utc).replace(tzinfo=None)
ToUtcNaive(dt) == Naive(dt.inst - dt.off, dt.us)

\* _parse_datetime(value): [ok, dt]; ok = FALSE is the ValueError
_parse_datetime(value) ==
    LET syn == DateSyntax(value) IN
    IF syn.fmt \in StrptimeFormats
    THEN [ok |-> TRUE, dt |-> IF syn.dt.aware THEN ToUtcNaive(syn.dt) ELSE syn.dt]
    ELSE IF syn.fmt = "iso"
    THEN [ok |-> TRUE, dt |-> syn.dt]
    ELSE [ok |-> FALSE, dt |-> syn.dt]

\* datetime.isoformat(timespec="seconds"): the microseconds are dropped
IsoSeconds(dt) == [inst |-> dt.inst, aware |-> dt.aware, off |-> dt.off]

\* `a > b` on datetimes is a TypeError between a naive and an aware one
Comparable(a, b) == a.aware = b.aware
Later(a, b) ==
    LET ua == a.inst - a.off
        ub == b.inst - b.off
    IN  ua > ub \/ (ua = ub /\ a.us > b.us)

\* --------------------------------------------------------- payload extractor

\* urljoin(BASE_URL, url) / url.startswith("http") on the urls that occur in payloads
StartsWithHttp(url) ==
    url \in {"https://www.europeantour.com/news/a", "http://example.org/x", "http-news/a"}
UrlJoin(base, url) ==
    CASE url = "/news/a" -> "https://www.europeantour.com/news/a"
      [] url = "/news/b" -> "https://www.europeantour.com/news/b"
      [] url = "/news/c" -> "https://www.europeantour.com/news/c"
      [] url = "news/b" -> "https://www.europeantour.com/news/b"
      [] url = "?page=2" -> "https://www.europeantour.com?page=2"
      [] url = "//cdn.example.org/x" -> "https://cdn.example.org/x"
      [] url = "HTTPS://EXAMPLE.ORG/x" -> "https://EXAMPLE.ORG/x"
      [] OTHER -> url

\* _normalise_url
_normalise_url(url) == IF StartsWithHttp(url) THEN url ELSE UrlJoin(BASE_URL, url)

\* _candidate_news_dict: the lowered key set meets all three key groups
_candidate_news_dict(obj) ==
    LET lowered == {Lower(k) : k \in Keys(obj)} IN
    /\ {"title", "headline", "name"} \cap lowered # {}
    /\ {"url", "slug", "permalink", "path"} \cap lowered # {}
    /\ {"date", "published", "publishdate", "publishdatetime"} \cap lowered # {}

TitleKeys == <<"title", "headline", "name">>
UrlKeys == <<"url", "permalink", "path", "slug">>
DateKeys == <<"publishDateTime", "publishDate", "published", "date">>
SummaryKeys == <<"summary", "description", "standfirst">>
IdKeys == <<"id", "identifier", "slug", "urlSlug", "canonicalSlug">>

\* _build_identifier: an explicit id-like field, else title::published
_build_identifier(obj) ==
    LET candidate == _extract_first(obj, IdKeys)
        title == _extract_first(obj, TitleKeys)
        published == _extract_first(obj, DateKeys)
    IN  IF Truthy(candidate) THEN <<StrOf(candidate)>>
        ELSE <<Strip(IF Truthy(title) THEN StrOf(title) ELSE ""), "::",
               Strip(IF Truthy(published) THEN StrOf(published) ELSE "")>>

NewsItem(identifier, title, url, published, summary) ==
    [identifier |-> identifier, title |-> title, url |-> url,
     published |-> published, summary |-> summary]

\* what the body of walk's `if _candidate_news_dict(node):` does with a mapping:
\* "return" (a required value is empty), "skip" (the try block raised), or "item"
Extract(node) ==
    LET title == _extract_first(node, TitleKeys)
        url_raw == _extract_first(node, UrlKeys)
        date_raw == _extract_first(node, DateKeys)
        summary == _extract_first(node, SummaryKeys)
        parsed == _parse_datetime(StrOf(date_raw))
    IN  IF ~(Truthy(title) /\ Truthy(url_raw) /\ Truthy(date_raw))
        THEN [how |-> "return", items |-> <<>>]
        ELSE IF ~parsed.ok
        THEN [how |-> "skip", items |-> <<>>]
        ELSE [how |-> "item",
              items |-> <<NewsItem(_build_identifier(node),
                                   Strip(StrOf(title)),
                                   _normalise_url(StrOf(url_raw)),
                                   parsed.dt,
                                   IF Truthy(summary) THEN Strip(StrOf(summary)) ELSE None)>>]

\* parse_news.walk: the items appended, in visiting order
RECURSIVE walk(_)
RECURSIVE walkAll(_)
walkAll(values) ==
    IF values = <<>> THEN <<>> ELSE walk(Head(values)) \o walkAll(Tail(values))
walk(node) ==
    IF node.t = "list" THEN walkAll(node.items)
    ELSE IF node.t = "dict"
    THEN LET own == IF _candidate_news_dict(node) THEN Extract(node)
                    ELSE [how |-> "skip", items |-> <<>>]
             values == [i \in 1..Len(node.entries) |-> node.entries[i].v]
         IN  IF own.how = "return" THEN <<>>
             ELSE own.items \o walkAll(values)
    ELSE <<>>

\* `unique` as it would be if an identifier seen before were never replaced
RECURSIVE KeepFirst(_, _)
KeepFirst(unique, found) ==
    IF found = <<>> THEN [error |-> None, items |-> unique]
    ELSE IF \E i \in 1..Len(unique) : unique[i].identifier = Head(found).identifier
         THEN KeepFirst(unique, Tail(found))
         ELSE KeepFirst(Append(unique, Head(found)), Tail(found))

\* parse_news: `unique` after the loop over items; a replaced entry keeps the place
\* of the first item with its identifier. [error, items]
RECURSIVE Dedup(_, _)
Dedup(unique, found) ==
    IF found = <<>> THEN [error |-> None, items |-> unique]
    ELSE LET item == Head(found)
             at == {i \in 1..Len(unique) : unique[i].identifier = item.identifier}
         IN  IF at = {} THEN Dedup(Append(unique, item), Tail(found))
             ELSE LET i == CHOOSE j \in at : TRUE IN
                  IF ~Comparable(item.published, unique[i].published)
                  THEN [error |-> "TypeError", items |-> unique]
                  ELSE IF Later(item.published, unique[i].published)
                  THEN Dedup([unique EXCEPT ![i] = item], Tail(found))
                  ELSE Dedup(unique, Tail(found))

\* sorted(..., key=published, reverse=True): stable, newest first
RECURSIVE InsertDesc(_, _)
InsertDesc(sorted, x) ==
    IF sorted = <<>> THEN <<x>>
    ELSE IF Later(x.published, Head(sorted).published) THEN <<x>> \o sorted
    ELSE <<Head(sorted)>> \o InsertDesc(Tail(sorted), x)

\* the list as it would be returned without the sort
NoSort(xs) == xs
RECURSIVE SortDesc(_)
SortDesc(xs) ==
    IF xs = <<>> THEN <<>>
    ELSE InsertDesc(SortDesc(SubSeq(xs, 1, Len(xs) - 1)), xs[Len(xs)])

\* parse_news from json.loads on: (sorted_items, payload), or the exception raised
ParseNews(tree) ==
    LET unique == Dedup(<<>>, walk(tree))
        mixed == \E i, j \in 1..Len(unique.items) :
                    ~Comparable(unique.items[i].published, unique.items[j].published)
    IN  IF unique.error # None THEN [error |-> unique.error, items |-> <<>>]
        ELSE IF mixed THEN [error |-> "TypeError", items |-> <<>>]
        ELSE [error |-> None, items |-> SortDesc(unique.items)]

\* ------------------------------------------------------------------ payloads

\* a news node as the site's payload carries it
Article(id, title, url, date) ==
    Dct(<<KV("id", Str(id)), KV("title", Str(title)),
          KV("url", Str(url)), KV("publishDate", Str(date))>>)
Page(articles) == Dct(<<KV("props", Dct(<<KV("news", Lst(articles))>>))>>)

EmptyPayload == Dct(<<>>)

ArticleA1 == Article("a", "t1", "/news/a", "2024-01-01T00:00:00")
\* the same article after the site edited its title and date
ArticleA2 == Article("a", "t2", "/news/a", "2024-03-05T00:00:00.500000")
ArticleB == Article("b", "t1", "/news/b", "2024-02-01T00:00:00")
ArticleC == Article("c", "t1", "/news/c", "2024-03-05T00:00:00")

\* the payloads the site serves over the runs explored
Payloads ==
    { EmptyPayload,
      Page(<<>>),
      Page(<<ArticleA1>>),
      Page(<<ArticleA2>>),
      Page(<<ArticleC, ArticleB>>),
      Page(<<ArticleC, ArticleB, ArticleA1>>) }

\* nodes of the shapes the extractor has to cope with
\* the article with identifier a, as above but dated 2024-03-05
ArticleA3 == Article("a", "t2", "/news/a", "2024-03-05T00:00:00")
\* an offset-carrying timestamp that matches the first strptime pattern
ArticleZ == Article("z", "t1", "/news/c", "2024-03-05T01:00:00+01:00")
\* an offset-carrying timestamp only datetime.fromisoformat accepts (no seconds)
ArticleI == Article("i", "t1", "/news/c", "2024-03-05T01:00+01:00")
\* a timestamp nothing accepts
BadDateNode == Article("y", "t1", "/news/b", "yesterday")
\* a title that is present but empty
EmptyTitleNode == Article("e", "", "/news/b", "2024-02-01T00:00:00")
\* no date field at all
NoDateNode == Dct(<<KV("id", Str("n")), KV("title", Str("t1")), KV("url", Str("/news/b"))>>)
\* a node that carries further nodes under one more key
WithRelated(node, children) == Dct(node.entries \o <<KV("related", Lst(children))>>)

PayloadNodes ==
    { ArticleA1, ArticleA3, ArticleB, ArticleZ, ArticleI, BadDateNode, EmptyTitleNode,
      NoDateNode,
      WithRelated(ArticleC, <<ArticleA3>>),
      WithRelated(NoDateNode, <<ArticleA1>>),
      WithRelated(BadDateNode, <<ArticleB>>),
      WithRelated(EmptyTitleNode, <<ArticleB>>) }

\* the payload trees parse_news is applied to on its own
ExtractorPayloads == {Page(ns) : ns \in UNION {[1..n -> PayloadNodes] : n \in 0..MaxNodes}}

\* the url texts _normalise_url is applied to on its own: paths, a query, absolute
\* urls of several schemes, a path that begins with the letters http, a network-path
\* reference
UrlTexts ==
    {"/news/a", "news/b", "?page=2", "https://www.europeantour.com/news/a",
     "http://example.org/x", "ftp://example.org/f", "HTTPS://EXAMPLE.ORG/x", "http-news/a",
     "//cdn.example.org/x"}

\* a news node with that url (its identifier is the url text)
UrlNode(u) == Article(u, "t1", u, "2024-01-01T00:00:00")
UrlPayloads ==
    {Page(ns) : ns \in UNION {[1..n -> {UrlNode(u) : u \in UrlTexts}] : n \in 0..MaxUrls}}

\* -------------------------------------------------------------------- archive

\* a sqlite3 connection: closed, or open with the view its transaction has of `news`
ClosedConn == [open |-> FALSE, rows |-> {}]
OpenConn(rows) == [open |-> TRUE, rows |-> rows]

\* NewsItem.to_row plus the two bookkeeping columns: one row of table `news`
Row(item, retrieved_at, raw_json) ==
    [identifier |-> item.identifier, title |-> item.title, url |-> item.url,
     summary |-> item.summary, published |-> IsoSeconds(item.published),
     retrieved_at |-> retrieved_at, raw_json |-> raw_json]

\* has_item as it would be if the query never matched a row
HasNoItem(rows, identifier) == FALSE

\* NewsArchive.has_item: SELECT 1 FROM news WHERE identifier = ? LIMIT 1
has_item(rows, identifier) == \E r \in rows : r.identifier = identifier

\* INSERT OR IGNORE on primary key `identifier`
InsertOrReplace(rows, row) ==
    {r \in rows : r.identifier # row.identifier} \cup {row}
InsertOrIgnore(rows, row) ==
    IF \E r \in rows : r.identifier = row.identifier THEN rows ELSE rows \cup {row}

\* NewsArchive._conn: `finally: conn.close()` drops what was not committed
CloseCommits(committed, view) == view
CloseConn(committed, view) == committed

\* `json.dumps(raw_source, ensure_ascii=False) if raw_source else None`
RawJson(raw_source) ==
    IF Truthy(raw_source) THEN [null |-> FALSE, json |-> raw_source]
    ELSE [null |-> TRUE, json |-> EmptyPayload]

\* datetime.utcnow().isoformat(timespec="seconds")
UtcNowIso(t) == IsoSeconds(Naive(t, 0))

\* run_once: [item for item in items if not self._archive.has_item(item.identifier)]
NoFilter(xs, rows) == xs
RECURSIVE NewItems(_, _)
NewItems(xs, rows) ==
    IF xs = <<>> THEN <<>>
    ELSE (IF has_item(rows, Head(xs).identifier) THEN <<>> ELSE <<Head(xs)>>)
            \o NewItems(Tail(xs), rows)

\* run_once: `new_items or items`, the argument of record_items
OnlyNew(new, all) == new
NewOrAll(new, all) == IF new # <<>> THEN new ELSE all

\* run_once: `if new_items and not self._dry_run`
Notifies(new, dry) == new # <<>> /\ ~dry

\* the chunks as they would be if the whole list went into one request
OneChunk(xs, size) == <<xs>>

\* discord._chunked(items, size)
_chunked(xs, size) ==
    [c \in 1..((Len(xs) + size - 1) \div size) |->
        SubSeq(xs, (c - 1) * size + 1, IF c * size < Len(xs) THEN c * size ELSE Len(xs))]

\* ------------------------------------------------------------ fetch engine

\* An HTML document, as far as parse_news looks at it: the __NEXT_DATA__ script tag
\* is missing, has no string, holds text json.loads rejects, or holds a JSON payload.
NoHtml == [script |-> None, payload |-> EmptyPayload]
Htmls ==
    {[script |-> k, payload |-> EmptyPayload] : k \in {"missing", "empty", "malformed"}}
        \cup {[script |-> "json", payload |-> p] : p \in Payloads}

NoFailure == [strategy |-> None, attempt |-> 0, kind |-> None, status |-> 0]
Failure(s, k, kind, status) == [strategy |-> s, attempt |-> k, kind |-> kind, status |-> status]

\* a loop iteration `for attempt in range(1, attempts + 1)` of strategy s begins
BeginAttempt(s, k) ==
    /\ strategy' = s
    /\ attempt' = k
    /\ made' = [made EXCEPT ![s] = @ + 1]
    /\ warmup' = None
    /\ targetDone' = FALSE

\* the attempt ends with last_error = err
FailAttempt(err, kind, status) ==
    /\ last_error' = err
    /\ failed' = failed + 1
    /\ lastFailure' = Failure(strategy, attempt, kind, status)

\* random.uniform(a, b), in milliseconds: both ends and the middle
Uniform(a, b) == {a, (a + b) \div 2, b}

\* fetch_news_html: `backoff = 1.75`, in hundredths
backoff == 175

\* fetch_news_html: `sleep_for = backoff ** attempt`, in milliseconds (rounded down)
RECURSIVE sleep_for(_)
sleep_for(k) == IF k = 0 THEN 1000 ELSE (sleep_for(k - 1) * backoff) \div 100

\* time.sleep(fixed + random.uniform(lo, hi)) at the end of a failed attempt
Sleep(fixed, lo, hi) ==
    /\ sleeps' = Append(sleeps, [strategy |-> strategy, attempt |-> attempt,
                                 sleep_for |-> fixed])
    /\ \E jitter \in Uniform(lo, hi) : slept' = fixed + jitter

\* fetch_news_html: `if curl_requests is not None: try: return _fetch_with_curl_cffi(...)`,
\* else straight to the cloudscraper loop
fetch_news_html ==
    /\ UNCHANGED serviceVars
    /\ pc = "fetch_news_html"
    /\ errors' = <<>>
    /\ last_error' = NoError
    /\ sleeps' = <<>>
    /\ slept' = 0
    /\ IF curl_requests
       THEN BeginAttempt("curl_cffi", 1) /\ pc' = "curl_warmup"
       ELSE BeginAttempt("cloudscraper", 1) /\ pc' = "cs_warmup"
    /\ UNCHANGED <<raised, raisedIn, curl_requests, attempts, html, failed,
                   okResponses, lastFailure, target403>>

\* _fetch_with_curl_cffi: session.get(BASE_URL + "/") inside the attempt's try block
curl_warmup ==
    /\ UNCHANGED serviceVars
    /\ pc = "curl_warmup"
    /\ \E o \in Outcomes :
        IF Raises(o)
        THEN \* except Exception as exc: last_error = exc
             /\ warmup' = "exception"
             /\ FailAttempt(TransportException(o.kind), o.kind, 0)
             /\ pc' = "curl_next"
        ELSE \* a status >= 400 is only logged
             /\ warmup' = IF IsErrorStatus(o.status) THEN "status" ELSE "ok"
             /\ pc' = "curl_target"
             /\ UNCHANGED <<last_error, failed, lastFailure>>
    /\ UNCHANGED <<raised, raisedIn, curl_requests, attempts, strategy, attempt, errors, html,
                   made, okResponses, target403, targetDone, sleeps, slept>>

\* _fetch_with_curl_cffi: response = session.get(PLAYER_NEWS_URL) and its status test
curl_target ==
    /\ UNCHANGED serviceVars
    /\ pc = "curl_target"
    /\ targetDone' = TRUE
    /\ \E o \in Outcomes :
        /\ target403' = [target403 EXCEPT ![strategy] = @ + (IF o.status = 403 THEN 1 ELSE 0)]
        /\ okResponses' = okResponses + (IF ~Raises(o) /\ o.status < 400 THEN 1 ELSE 0)
        /\ IF Raises(o)
           THEN /\ FailAttempt(TransportException(o.kind), o.kind, 0)
                /\ pc' = "curl_next"
                /\ UNCHANGED html
           ELSE IF IsErrorStatus(o.status)
           THEN /\ FailAttempt(StatusFetchError(o.status), "status", o.status)
                /\ pc' = "curl_next"
                /\ UNCHANGED html
           ELSE \* return response.text
                /\ \E body \in Htmls : html' = body
                /\ pc' = "parse_news"
                /\ UNCHANGED <<last_error, failed, lastFailure>>
    /\ UNCHANGED <<raised, raisedIn, curl_requests, attempts, strategy, attempt, errors,
                   made, warmup, sleeps, slept>>

\* _fetch_with_curl_cffi: end of an iteration
\* (`if attempt < attempts: time.sleep(random.uniform(2.0, 4.0))`), and
\* after the loop `raise FetchError(str(last_error))`, which fetch_news_html catches
\* (`errors.append(exc)`) before it enters the cloudscraper loop
curl_next ==
    /\ UNCHANGED serviceVars
    /\ pc = "curl_next"
    /\ IF HasNext(attempt, attempts)
       THEN /\ Sleep(0, 2000, 4000)
            /\ BeginAttempt("curl_cffi", attempt + 1)
            /\ pc' = "curl_warmup"
            /\ UNCHANGED <<errors, last_error>>
       ELSE /\ errors' = Append(errors, ExhaustedError(last_error))
            /\ last_error' = NoError
            /\ BeginAttempt("cloudscraper", 1)
            /\ pc' = "cs_warmup"
            /\ UNCHANGED <<sleeps, slept>>
    /\ UNCHANGED <<raised, raisedIn, curl_requests, attempts, html, failed,
                   okResponses, lastFailure, target403>>

\* fetch_news_html: warmup = scraper.get(BASE_URL + "/") inside the attempt's try block
cs_warmup ==
    /\ UNCHANGED serviceVars
    /\ pc = "cs_warmup"
    /\ \E o \in Outcomes :
        IF Raises(o)
        THEN /\ warmup' = "exception"
             /\ FailAttempt(TransportException(o.kind), o.kind, 0)
             /\ pc' = "cs_next"
        ELSE /\ warmup' = IF IsErrorStatus(o.status) THEN "status" ELSE "ok"
             /\ pc' = "cs_target"
             /\ UNCHANGED <<last_error, failed, lastFailure>>
    /\ UNCHANGED <<raised, raisedIn, curl_requests, attempts, strategy, attempt, errors, html,
                   made, okResponses, target403, targetDone, sleeps, slept>>

\* fetch_news_html: response = scraper.get(PLAYER_NEWS_URL) and its status tests
cs_target ==
    /\ UNCHANGED serviceVars
    /\ pc = "cs_target"
    /\ targetDone' = TRUE
    /\ \E o \in Outcomes :
        /\ target403' = [target403 EXCEPT ![strategy] = @ + (IF o.status = 403 THEN 1 ELSE 0)]
        /\ okResponses' = okResponses + (IF ~Raises(o) /\ o.status < 400 THEN 1 ELSE 0)
        /\ IF Raises(o)
           THEN /\ FailAttempt(TransportException(o.kind), o.kind, 0)
                /\ pc' = "cs_next"
                /\ UNCHANGED html
           ELSE IF o.status = 403
           THEN /\ FailAttempt(StatusFetchError(o.status), "status", o.status)
                /\ pc' = "cs_next"
                /\ UNCHANGED html
           ELSE IF IsErrorStatus(o.status)
           THEN /\ FailAttempt(StatusFetchError(o.status), "status", o.status)
                /\ pc' = "cs_next"
                /\ UNCHANGED html
           ELSE /\ \E body \in Htmls : html' = body
                /\ pc' = "parse_news"
                /\ UNCHANGED <<last_error, failed, lastFailure>>
    /\ UNCHANGED <<raised, raisedIn, curl_requests, attempts, strategy, attempt, errors,
                   made, warmup, sleeps, slept>>

\* fetch_news_html: end of an iteration (`if attempt < attempts: sleep_for = backoff **
\* attempt; time.sleep(sleep_for + random.uniform(0.0, 1.5))`), and
\* after the loop `raise FetchError(str(last_error)) from last_error`
cs_next ==
    /\ UNCHANGED serviceVars
    /\ pc = "cs_next"
    /\ IF HasNext(attempt, attempts)
       THEN /\ Sleep(sleep_for(attempt), 0, 1500)
            /\ BeginAttempt("cloudscraper", attempt + 1)
            /\ pc' = "cs_warmup"
            /\ UNCHANGED <<raised, raisedIn>>
       ELSE /\ raised' = ExhaustedError(last_error)
            /\ raisedIn' = "fetch_news_html"
            /\ pc' = "raised"
            /\ UNCHANGED <<strategy, attempt, made, warmup, targetDone, sleeps, slept>>
    /\ UNCHANGED <<curl_requests, attempts, last_error, errors, html, failed,
                   okResponses, lastFailure, target403>>

\* parse_news is a function of the payload: its result for every payload explored
ParsedPayloads ==
    [p \in Payloads \cup ExtractorPayloads \cup UrlPayloads |-> ParseNews(p)]

\* scraper.parse_news: the script tag, json.loads, then the traversal (ParseNews)
parse_news ==
    /\ UNCHANGED <<afterFirst, crossRuns>>
    /\ pc = "parse_news"
    /\ IF html.script \in {"missing", "empty"}
       THEN /\ raised' = Exc("FetchError", "Could not locate Next.js data payload (__NEXT_DATA__).", 0, "")
            /\ raisedIn' = "parse_news"
            /\ pc' = "raised"
            /\ UNCHANGED <<items, payload>>
       ELSE IF html.script = "malformed"
       THEN /\ raised' = Exc("JSONDecodeError", "Expecting value", 0, "")
            /\ raisedIn' = "parse_news"
            /\ pc' = "raised"
            /\ UNCHANGED <<items, payload>>
       ELSE LET parsed == ParsedPayloads[html.payload] IN
            IF parsed.error # None
            THEN /\ raised' = Exc(parsed.error, "can't compare offset-naive and offset-aware datetimes", 0, "")
                 /\ raisedIn' = "parse_news"
                 /\ pc' = "raised"
                 /\ UNCHANGED <<items, payload>>
            ELSE /\ items' = parsed.items
                 /\ payload' = html.payload
                 /\ pc' = "dedup"
                 /\ UNCHANGED <<raised, raisedIn>>
    /\ UNCHANGED <<fetchVars, fetchHist, cfgVars, driverVars, storeVars, runHist,
                   new_items, batch, idx, now, conn>>

FetchNext ==
    \/ fetch_news_html
    \/ curl_warmup
    \/ curl_target
    \/ curl_next
    \/ cs_warmup
    \/ cs_target
    \/ cs_next
    \/ parse_news

vars == <<pc, raised, raisedIn, fetchVars, fetchHist, serviceVars>>

\* a call fetch_news_html(attempts = n) followed by parse_news, as fetch_news makes it
InitFetchCall ==
    /\ raised = NoError
    /\ raisedIn = None
    /\ strategy = None
    /\ attempt = 0
    /\ last_error = NoError
    /\ errors = <<>>
    /\ html = NoHtml
    /\ made = [s \in Strategies |-> 0]
    /\ failed = 0
    /\ okResponses = 0
    /\ lastFailure = NoFailure
    /\ target403 = [s \in Strategies |-> 0]
    /\ warmup = None
    /\ targetDone = FALSE
    /\ sleeps = <<>>
    /\ slept = 0

\* the identifiers of a list of records, of a set of rows
Ids(xs) == {xs[i].identifier : i \in 1..Len(xs)}
RowIds(rows) == {r.identifier : r \in rows}

\* no send_news call has been made on the archive, no run has ended
NoHistory ==
    /\ notifications = [id \in {} |-> 0]
    /\ missed = {}

\* the counts after one more send_news call, made with the list xs
Counted(counts, xs) ==
    [id \in DOMAIN counts \cup Ids(xs) |->
        (IF id \in DOMAIN counts THEN counts[id] ELSE 0)
            + Cardinality({i \in 1..Len(xs) : xs[i].identifier = id})]

\* the identifiers the run that just ended added to the table without any request the
\* webhook accepted carrying them
MissedByRun ==
    IF written
    THEN (RowIds(archive) \ RowIds(archiveAtCall))
            \ UNION {Ids(posts[k]) : k \in 1..Len(posts)}
    ELSE {}

\* the caller has not completed a first call of record_items
NotCalled == [set |-> FALSE, rows |-> {}]

\* no run in progress: the locals of run_once and the history of the run
NoRun ==
    /\ items = <<>>
    /\ payload = EmptyPayload
    /\ new_items = <<>>
    /\ batch = <<>>
    /\ idx = 0
    /\ now = 0
    /\ conn = ClosedConn
    /\ archiveAtCheck = {}
    /\ archiveAtCall = {}
    /\ written = FALSE
    /\ handed = <<>>
    /\ posts = <<>>

\* a run starts: the locals and the history of the previous one are gone
ResetRun ==
    /\ items' = <<>>
    /\ payload' = EmptyPayload
    /\ new_items' = <<>>
    /\ batch' = <<>>
    /\ idx' = 0
    /\ now' = 0
    /\ conn' = ClosedConn
    /\ archiveAtCheck' = {}
    /\ archiveAtCall' = {}
    /\ written' = FALSE
    /\ handed' = <<>>
    /\ posts' = <<>>

InitService ==
    /\ once = FALSE
    /\ dry_run = FALSE
    /\ ledger_path = FALSE
    /\ runs = 0
    /\ clock = 0
    /\ archive = {}
    /\ ledger = <<>>
    /\ NoRun
    /\ afterFirst = NotCalled
    /\ NoHistory

InitFetch ==
    /\ pc = "fetch_news_html"
    /\ curl_requests \in BOOLEAN
    /\ attempts \in 1..MaxAttempts
    /\ InitFetchCall
    /\ InitService

SpecFetch == InitFetch /\ [][FetchNext]_vars

\* -------------------------------------------------------------- the service

\* what fetch_news_html raises once every strategy is exhausted (see cs_next)
FetchNewsHtmlFailures ==
    {ExhaustedError(StatusFetchError(st)) : st \in {x \in Statuses : IsErrorStatus(x)}}
        \cup {ExhaustedError(TransportException(e)) : e \in TransportErrors}

\* the transport loop checked under SpecFetch ends in one of the results run_once draws
FetchSummarySound ==
    /\ raisedIn = "fetch_news_html" => raised \in FetchNewsHtmlFailures
    /\ html \in Htmls \cup {NoHtml}

SqliteError == Exc("sqlite3.OperationalError", "database is locked", 0, "")
OSError == Exc("OSError", "No space left on device", 0, "")
HTTPError(status) == Exc("requests.HTTPError", "Client Error", status, "")

\* __main__.main: a process starts on the existing database file; NewsArchive.__init__
\* runs CREATE TABLE IF NOT EXISTS, which keeps the rows
main ==
    /\ UNCHANGED afterFirst
    /\ pc \in {"start", "exit"}
    /\ runs < MaxRuns
    /\ once' \in BOOLEAN
    /\ dry_run' \in BOOLEAN
    /\ ledger_path' \in BOOLEAN
    /\ raised' = NoError
    /\ raisedIn' = None
    /\ pc' = "run_once"
    /\ missed' = missed \cup MissedByRun
    /\ ResetRun
    /\ UNCHANGED <<fetchVars, fetchHist, driverVars, storeVars, notifications>>

\* run_once as it would be if the FetchError were logged and not re-raised
run_once_swallows ==
    /\ UNCHANGED <<afterFirst, crossRuns>>
    /\ pc = "run_once"
    /\ runs' = runs + 1
    /\ clock' = clock + 1
    /\ UNCHANGED <<items, payload, new_items, batch, idx, now, conn, runHist>>
    /\ \/ /\ html' = NoHtml
          /\ raised' = NoError
          /\ raisedIn' = None
          /\ pc' = "dedup"
       \/ \E body \in Htmls :
            /\ html' = body
            /\ raised' = NoError
            /\ raisedIn' = None
            /\ pc' = "parse_news"
    /\ UNCHANGED <<curl_requests, attempts, strategy, attempt, last_error, errors,
                   fetchHist, cfgVars, storeVars>>

\* run_once, lines 34-38: fetch_news() -> fetch_news_html(attempts = 4), whose
\* transport loop (SpecFetch) ends in a FetchError or in a document for parse_news
run_once ==
    /\ UNCHANGED <<afterFirst, crossRuns>>
    /\ pc = "run_once"
    /\ runs' = runs + 1
    /\ clock' = clock + 1
    /\ UNCHANGED <<items, payload, new_items, batch, idx, now, conn, runHist>>
    /\ \/ \E e \in FetchNewsHtmlFailures :
            /\ raised' = e
            /\ raisedIn' = "fetch_news_html"
            /\ html' = NoHtml
            /\ pc' = "raised"
       \/ \E body \in Htmls :
            /\ html' = body
            /\ raised' = NoError
            /\ raisedIn' = None
            /\ pc' = "parse_news"
    /\ UNCHANGED <<curl_requests, attempts, strategy, attempt, last_error, errors,
                   fetchHist, cfgVars, storeVars>>

\* run_once, line 40: the has_item query per extracted item
dedup ==
    /\ UNCHANGED <<afterFirst, crossRuns>>
    /\ pc = "dedup"
    /\ \/ /\ new_items' = NewItems(items, archive)
          /\ archiveAtCheck' = archive
          /\ pc' = "record_items"
          /\ UNCHANGED <<raised, raisedIn>>
       \/ /\ raised' = SqliteError
          /\ raisedIn' = "has_item"
          /\ pc' = "raised"
          /\ UNCHANGED <<new_items, archiveAtCheck>>
    /\ UNCHANGED <<fetchVars, fetchHist, cfgVars, driverVars, storeVars, items, payload,
                   batch, idx, now, conn, archiveAtCall, written, handed, posts>>

\* run_once, line 46, and record_items up to `with self._conn() as conn`
record_items ==
    /\ UNCHANGED <<afterFirst, crossRuns>>
    /\ pc = "record_items"
    /\ batch' = NewOrAll(new_items, items)
    /\ now' = clock
    /\ archiveAtCall' = archive
    /\ \/ /\ conn' = OpenConn(archive)
          /\ idx' = 1
          /\ pc' = "insert"
          /\ UNCHANGED <<raised, raisedIn>>
       \/ /\ raised' = SqliteError
          /\ raisedIn' = "record_items"
          /\ pc' = "raised"
          /\ UNCHANGED <<conn, idx>>
    /\ UNCHANGED <<fetchVars, fetchHist, cfgVars, driverVars, storeVars, items, payload,
                   new_items, archiveAtCheck, written, handed, posts>>

\* record_items: one conn.execute("INSERT OR IGNORE ...") of the loop; when it raises,
\* _conn's finally closes the connection
insert ==
    /\ UNCHANGED <<afterFirst, crossRuns>>
    /\ pc = "insert"
    /\ idx <= Len(batch)
    /\ \/ /\ conn' = OpenConn(InsertOrIgnore(conn.rows,
                                Row(batch[idx], UtcNowIso(now), RawJson(payload))))
          /\ idx' = idx + 1
          /\ UNCHANGED <<pc, raised, raisedIn, archive>>
       \/ /\ raised' = SqliteError
          /\ raisedIn' = "record_items"
          /\ archive' = CloseConn(archive, conn.rows)
          /\ conn' = ClosedConn
          /\ pc' = "raised"
          /\ UNCHANGED idx
    /\ UNCHANGED <<fetchVars, fetchHist, cfgVars, driverVars, ledger, items, payload,
                   new_items, batch, now, runHist>>

\* record_items: conn.commit() after the loop, then _conn closes the connection
commit ==
    /\ UNCHANGED <<afterFirst, crossRuns>>
    /\ pc = "insert"
    /\ idx > Len(batch)
    /\ \/ /\ archive' = CloseConn(conn.rows, conn.rows)
          /\ written' = TRUE
          /\ pc' = "export_ledger"
          /\ UNCHANGED <<raised, raisedIn>>
       \/ /\ raised' = SqliteError
          /\ raisedIn' = "record_items"
          /\ archive' = CloseConn(archive, conn.rows)
          /\ pc' = "raised"
          /\ UNCHANGED written
    /\ conn' = ClosedConn
    /\ UNCHANGED <<fetchVars, fetchHist, cfgVars, driverVars, ledger, items, payload,
                   new_items, batch, idx, now, archiveAtCheck, archiveAtCall, handed, posts>>

\* one line of the ledger: the row without raw_json
LedgerLine(r) ==
    [identifier |-> r.identifier, title |-> r.title, url |-> r.url, summary |-> r.summary,
     published |-> r.published, retrieved_at |-> r.retrieved_at]

\* ORDER BY published DESC on the TEXT column: ISO texts compare by their wall-clock
\* fields, then by the offset suffix ("" first)
TextBefore(a, b) ==
    \/ a.inst < b.inst
    \/ a.inst = b.inst /\ ~a.aware /\ b.aware
    \/ a.inst = b.inst /\ a.aware /\ b.aware /\ a.off < b.off

\* the orders SELECT ... ORDER BY published DESC can return the rows in
Listings(rows) ==
    {l \in [1..Cardinality(rows) -> rows] :
        /\ \A i, j \in DOMAIN l : i # j => l[i] # l[j]
        /\ \A i, j \in DOMAIN l : i < j => ~TextBefore(l[i].published, l[j].published)}

\* export_ledger as it would be if it ran inside the transaction of record_items
export_ledger_rolls_back ==
    /\ UNCHANGED <<afterFirst, crossRuns>>
    /\ pc = "export_ledger"
    /\ IF ledger_path
       THEN \E l \in Listings(archive) :
            \/ /\ ledger' = [i \in DOMAIN l |-> LedgerLine(l[i])]
               /\ pc' = "notify"
               /\ UNCHANGED <<raised, raisedIn, archive>>
            \/ \E k \in 0..Len(l) :
               /\ ledger' = [i \in 1..k |-> LedgerLine(l[i])]
               /\ raised' = OSError
               /\ raisedIn' = "export_ledger"
               /\ archive' = archiveAtCall
               /\ pc' = "raised"
       ELSE /\ pc' = "notify"
            /\ UNCHANGED <<raised, raisedIn, ledger, archive>>
    /\ UNCHANGED <<fetchVars, fetchHist, cfgVars, driverVars, runVars, runHist>>

\* run_once, lines 48-49, and export_ledger: the file is truncated, then written line
\* by line; a failure leaves it untouched (before open) or with the lines written so far
export_ledger ==
    /\ UNCHANGED <<afterFirst, crossRuns>>
    /\ pc = "export_ledger"
    /\ IF ledger_path
       THEN \E l \in Listings(archive) :
            \/ /\ ledger' = [i \in DOMAIN l |-> LedgerLine(l[i])]
               /\ pc' = "notify"
               /\ UNCHANGED <<raised, raisedIn>>
            \/ /\ raised' = SqliteError
               /\ raisedIn' = "export_ledger"
               /\ pc' = "raised"
               /\ UNCHANGED ledger
            \/ \E k \in 0..Len(l) :
               /\ ledger' = [i \in 1..k |-> LedgerLine(l[i])]
               /\ raised' = OSError
               /\ raisedIn' = "export_ledger"
               /\ pc' = "raised"
       ELSE /\ pc' = "notify"
            /\ UNCHANGED <<raised, raisedIn, ledger>>
    /\ UNCHANGED <<fetchVars, fetchHist, cfgVars, driverVars, archive, runVars, runHist>>

\* run_once, lines 51-55: send_news(webhook_url, new_items) unless nothing is new or dry-run
notify ==
    /\ UNCHANGED afterFirst
    /\ pc = "notify"
    /\ IF Notifies(new_items, dry_run)
       THEN /\ handed' = Append(handed, new_items)
            /\ notifications' = Counted(notifications, new_items)
            /\ idx' = 1
            /\ pc' = "send_news"
       ELSE /\ pc' = "returned"
            /\ UNCHANGED <<handed, idx, notifications>>
    /\ UNCHANGED missed
    /\ UNCHANGED <<raised, raisedIn, fetchVars, fetchHist, cfgVars, driverVars, storeVars, items,
                   payload, new_items, batch, now, conn, archiveAtCheck, archiveAtCall,
                   written, posts>>

\* send_news: one iteration of `for batch in _chunked(items, MAX_EMBEDS_PER_REQUEST)`:
\* session.post raises, or answers; status >= 400 -> raise_for_status()
send_news ==
    /\ UNCHANGED <<afterFirst, crossRuns>>
    /\ pc = "send_news"
    /\ LET chunks == _chunked(handed[Len(handed)], MAX_EMBEDS_PER_REQUEST) IN
       IF idx > Len(chunks)
       THEN /\ pc' = "returned"
            /\ UNCHANGED <<raised, raisedIn, idx, posts>>
       ELSE \E o \in Outcomes :
            IF Raises(o)
            THEN /\ raised' = TransportException(o.kind)
                 /\ raisedIn' = "send_news"
                 /\ pc' = "raised"
                 /\ UNCHANGED <<idx, posts>>
            ELSE IF IsErrorStatus(o.status)
            THEN /\ raised' = HTTPError(o.status)
                 /\ raisedIn' = "send_news"
                 /\ pc' = "raised"
                 /\ UNCHANGED <<idx, posts>>
            ELSE /\ posts' = Append(posts, chunks[idx])
                 /\ idx' = idx + 1
                 /\ UNCHANGED <<pc, raised, raisedIn>>
    /\ UNCHANGED <<fetchVars, fetchHist, cfgVars, driverVars, storeVars, items, payload,
                   new_items, batch, now, conn, archiveAtCheck, archiveAtCall, written,
                   handed>>

\* the exception classes a run raises: all of them derive from Exception
ExceptionClasses ==
    {"FetchError", "JSONDecodeError", "TypeError", "sqlite3.OperationalError", "OSError",
     "requests.HTTPError"} \cup TransportErrors

\* run_forever: `except Exception as exc`
IsFetchError(exc) == exc.type = "FetchError"
IsException(exc) == exc.type \in ExceptionClasses

\* run_forever: `except Exception` logs what the run raised (anything else would leave
\* the loop and the process); time.sleep(poll_interval); then the next run_once
run_forever ==
    /\ UNCHANGED afterFirst
    /\ pc \in {"returned", "raised"}
    /\ ~once
    /\ runs < MaxRuns
    /\ IF pc = "raised" /\ ~IsException(raised)
       THEN /\ pc' = "exit"
            /\ UNCHANGED <<raised, raisedIn, runVars, runHist, missed>>
       ELSE /\ raised' = NoError
            /\ UNCHANGED raisedIn
            /\ pc' = "run_once"
            /\ missed' = missed \cup MissedByRun
            /\ ResetRun
    /\ UNCHANGED <<fetchVars, fetchHist, cfgVars, driverVars, storeVars, notifications>>

\* main with --once: `service.run_once(); return 0`, or the exception leaves main
main_once ==
    /\ UNCHANGED <<afterFirst, crossRuns>>
    /\ pc \in {"returned", "raised"}
    /\ once
    /\ pc' = "exit"
    /\ UNCHANGED <<raised, raisedIn, fetchVars, fetchHist, cfgVars, driverVars, storeVars, runVars,
                   runHist>>

Next ==
    \/ main
    \/ run_once
    \/ parse_news
    \/ dedup
    \/ record_items
    \/ insert
    \/ commit
    \/ export_ledger
    \/ notify
    \/ send_news
    \/ run_forever
    \/ main_once

Init ==
    /\ pc = "start"
    /\ curl_requests \in BOOLEAN
    /\ attempts = DEFAULT_ATTEMPTS
    /\ InitFetchCall
    /\ InitService

Spec == Init /\ [][Next]_vars

\* ------------------------------------------------- parse_news on its own

\* parse_news(html) is about to be called on a document
InitParse ==
    /\ pc = "parse_news"
    /\ raised = NoError
    /\ raisedIn = None
    /\ curl_requests = TRUE
    /\ attempts = DEFAULT_ATTEMPTS
    /\ strategy = None
    /\ attempt = 0
    /\ last_error = NoError
    /\ errors = <<>>
    /\ html \in {[script |-> "json", payload |-> p] : p \in ExtractorPayloads}
                \cup {[script |-> k, payload |-> EmptyPayload] :
                        k \in {"missing", "empty", "malformed"}}
    /\ made = [s \in Strategies |-> 0]
    /\ failed = 0
    /\ okResponses = 0
    /\ lastFailure = NoFailure
    /\ target403 = [s \in Strategies |-> 0]
    /\ warmup = None
    /\ targetDone = FALSE
    /\ sleeps = <<>>
    /\ slept = 0
    /\ InitService

SpecParse == InitParse /\ [][parse_news]_vars

\* parse_news(html) is about to be called on a document whose nodes carry the url texts
InitUrl ==
    /\ pc = "parse_news"
    /\ raised = NoError
    /\ raisedIn = None
    /\ curl_requests = TRUE
    /\ attempts = DEFAULT_ATTEMPTS
    /\ strategy = None
    /\ attempt = 0
    /\ last_error = NoError
    /\ errors = <<>>
    /\ html \in {[script |-> "json", payload |-> p] : p \in UrlPayloads}
                \cup {[script |-> k, payload |-> EmptyPayload] :
                        k \in {"missing", "empty", "malformed"}}
    /\ made = [s \in Strategies |-> 0]
    /\ failed = 0
    /\ okResponses = 0
    /\ lastFailure = NoFailure
    /\ target403 = [s \in Strategies |-> 0]
    /\ warmup = None
    /\ targetDone = FALSE
    /\ sleeps = <<>>
    /\ slept = 0
    /\ InitService

SpecUrl == InitUrl /\ [][parse_news]_vars

\* ------------------------------------------------------ the polling loop

\* main without --once, --dump-archive: service.run_forever() on a new database
InitForever ==
    /\ pc = "run_once"
    /\ raised = NoError
    /\ raisedIn = None
    /\ curl_requests = TRUE
    /\ attempts = DEFAULT_ATTEMPTS
    /\ InitFetchCall
    /\ once = FALSE
    /\ dry_run \in BOOLEAN
    /\ ledger_path \in BOOLEAN
    /\ runs = 0
    /\ clock = 0
    /\ archive = {}
    /\ ledger = <<>>
    /\ NoRun
    /\ afterFirst = NotCalled
    /\ NoHistory

ForeverNext ==
    \/ run_once
    \/ parse_news
    \/ dedup
    \/ record_items
    \/ insert
    \/ commit
    \/ export_ledger
    \/ notify
    \/ send_news
    \/ run_forever

\* the one thread of the process keeps executing: every call it makes (GET and POST with
\* a timeout, sqlite, file writes, time.sleep) returns or raises
SpecForever == InitForever /\ [][ForeverNext]_vars /\ WF_vars(ForeverNext)

\* ------------------------------------------- record_items called on its own

\* the record parse_news makes of a well-formed node
ItemOf(node) == Extract(node).items[1]

\* the records record_items is called with
StoredItems == {ItemOf(ArticleA1), ItemOf(ArticleA2), ItemOf(ArticleB)}
Batches == UNION {[1..n -> StoredItems] : n \in 0..MaxBatch}

\* the raw_source arguments record_items is called with ({} is stored as NULL)
RawSources == {EmptyPayload, Page(<<>>), Page(<<ArticleA1>>)}

\* the contents table `news` can have at a call: identifier is the primary key
ArchiveStates ==
    {rows \in SUBSET {Row(x, UtcNowIso(0), RawJson(EmptyPayload)) : x \in StoredItems} :
        \A r1, r2 \in rows : r1.identifier = r2.identifier => r1 = r2}

\* NewsArchive.record_items(items, raw_source) is about to be called on a table
InitStore ==
    /\ pc = "record_items"
    /\ raised = NoError
    /\ raisedIn = None
    /\ curl_requests = TRUE
    /\ attempts = DEFAULT_ATTEMPTS
    /\ InitFetchCall
    /\ once = FALSE
    /\ dry_run = FALSE
    /\ ledger_path = FALSE
    /\ runs = 0
    /\ clock = 1
    /\ archive \in ArchiveStates
    /\ ledger = <<>>
    /\ items \in Batches
    /\ payload \in RawSources
    /\ new_items = <<>>
    /\ batch = <<>>
    /\ idx = 0
    /\ now = 0
    /\ conn = ClosedConn
    /\ archiveAtCheck = {}
    /\ archiveAtCall = {}
    /\ written = FALSE
    /\ handed = <<>>
    /\ posts = <<>>
    /\ afterFirst = NotCalled
    /\ NoHistory

\* the caller calls record_items a second time with the same items, at the same or a
\* later wall-clock time and with any raw_source
record_items_again ==
    /\ pc = "export_ledger"
    /\ ~afterFirst.set
    /\ afterFirst' = [set |-> TRUE, rows |-> archive]
    /\ clock' \in {clock, clock + 1}
    /\ payload' \in RawSources
    /\ written' = FALSE
    /\ pc' = "record_items"
    /\ UNCHANGED <<raised, raisedIn, fetchVars, fetchHist, cfgVars, runs, storeVars, items,
                   new_items, batch, idx, now, conn, archiveAtCheck, archiveAtCall,
                   handed, posts, crossRuns>>

StoreNext ==
    \/ record_items
    \/ insert
    \/ commit
    \/ record_items_again

SpecStore == InitStore /\ [][StoreNext]_vars

\* ------------------------------------------------- the notifier on its own

\* the n-th of the new records of a run
NewsNumber(n) ==
    NewsItem(<<ToString(n)>>, "t1", "https://www.europeantour.com/news/a", Naive(n, 0), None)

\* run_once has archived its new records, n of them, and is about to notify
InitNotify ==
    /\ pc = "notify"
    /\ raised = NoError
    /\ raisedIn = None
    /\ curl_requests = TRUE
    /\ attempts = DEFAULT_ATTEMPTS
    /\ InitFetchCall
    /\ once = FALSE
    /\ dry_run \in BOOLEAN
    /\ ledger_path = FALSE
    /\ runs = 1
    /\ clock = 1
    /\ archive = {}
    /\ ledger = <<>>
    /\ \E n \in 0..MaxNews :
        /\ new_items = [i \in 1..n |-> NewsNumber(i)]
        /\ items = new_items
    /\ payload = EmptyPayload
    /\ batch = <<>>
    /\ idx = 0
    /\ now = 0
    /\ conn = ClosedConn
    /\ archiveAtCheck = {}
    /\ archiveAtCall = {}
    /\ written = TRUE
    /\ handed = <<>>
    /\ posts = <<>>
    /\ afterFirst = NotCalled
    /\ NoHistory

NotifyNext ==
    \/ notify
    \/ send_news

SpecNotify == InitNotify /\ [][NotifyNext]_vars

\* ------------------------------------------------------------------ claims

\* the subsequence of xs whose identifiers are not keys of rows, in the order of xs
RECURSIVE ExtractedNotIn(_, _)
ExtractedNotIn(xs, rows) ==
    IF xs = <<>> THEN <<>>
    ELSE IF Head(xs).identifier \in RowIds(rows)
         THEN ExtractedNotIn(Tail(xs), rows)
         ELSE <<Head(xs)>> \o ExtractedNotIn(Tail(xs), rows)

\* C1: whenever run_once calls send_news, it does so once per run, dry-run is off, and
\* the argument is the non-empty list of the extracted records whose identifier was not
\* in the archive when has_item was asked, in extraction order; nothing is posted
\* otherwise.
C1_NotifierGetsNewRecords ==
    /\ Len(handed) <= 1
    /\ \A k \in 1..Len(handed) :
        /\ handed[k] = ExtractedNotIn(items, archiveAtCheck)
        /\ handed[k] # <<>>
        /\ ~dry_run
    /\ handed = <<>> => posts = <<>>

\* C1 witness: send_news was called with two of three extracted records
C1_Witness ==
    /\ Len(handed) = 1
    /\ Len(items) = 3
    /\ Len(handed[1]) = 2

\* C2: once record_items has returned, its argument was E minus A when that is
\* non-empty and E otherwise (E the extracted list, A the archive at the dedup check),
\* and every identifier of E is a key of the archive.
C2_DedupGate ==
    written =>
        /\ batch = (IF ExtractedNotIn(items, archiveAtCheck) # <<>>
                    THEN ExtractedNotIn(items, archiveAtCheck) ELSE items)
        /\ Ids(items) \subseteq RowIds(archive)

\* C2 witness: A = {a}, E = {a, b, c}, record_items got {b, c}
C2_Witness ==
    /\ written
    /\ RowIds(archiveAtCheck) = {<<"a">>}
    /\ Ids(items) = {<<"a">>, <<"b">>, <<"c">>}
    /\ Ids(batch) = {<<"b">>, <<"c">>}

UniqueKeys(rows) == \A r1, r2 \in rows : r1.identifier = r2.identifier => r1 = r2

\* C3: the archive never holds two rows for one identifier, and every step keeps every
\* stored row with all its columns (title, url, summary, published, retrieved_at,
\* raw_json) as first inserted.
C3_EntriesCreatedOnceNeverChanged ==
    /\ [](UniqueKeys(archive))
    /\ [][\A r \in archive : r \in archive']_vars

\* C3 witness: a write completed in a run that extracted a stored identifier with
\* another title
C3_Witness ==
    /\ written
    /\ \E i \in 1..Len(items) : \E r \in archive :
        r.identifier = items[i].identifier /\ r.title # items[i].title

\* C4 as stated: after the write of a run that found nothing new, the archived entry of
\* every extracted record carries this run's retrieved_at and raw payload.
C4_RefreshUpdatesBookkeeping ==
    (written /\ new_items = <<>>) =>
        \A i \in 1..Len(items) : \E r \in archive :
            /\ r.identifier = items[i].identifier
            /\ r.retrieved_at = UtcNowIso(now)
            /\ r.raw_json = RawJson(payload)

\* C4 amended: after the write of a run that found nothing new, the archive is exactly
\* what it was at the dedup check (no row added, none changed: retrieved_at and raw_json
\* stay those of the first insertion), and no key is duplicated.
C4_RefreshLeavesArchiveUnchanged ==
    (written /\ ExtractedNotIn(items, archiveAtCheck) = <<>>) =>
        /\ archive = archiveAtCheck
        /\ UniqueKeys(archive)

\* C4 witness: a refresh write completed over an entry archived by an earlier run
C4_Witness ==
    /\ written
    /\ new_items = <<>>
    /\ items # <<>>
    /\ \E r \in archive :
        r.identifier = items[1].identifier /\ r.retrieved_at # UtcNowIso(now)

\* the rows a call of record_items adds: one per batch record whose identifier was absent
Added(xs, rows, t, raw) ==
    {Row(xs[i], t, raw) : i \in {j \in 1..Len(xs) : xs[j].identifier \notin RowIds(rows)}}

\* C10: while record_items runs and after it raised, the archive is what it was at the
\* call; after it returned, the archive is that plus one row per batch record whose
\* identifier was absent, the rows already present being left as they were.
C10_RecordItemsAtomic ==
    /\ pc = "insert" => archive = archiveAtCall
    /\ (pc \in {"raised", "exit"} /\ raisedIn = "record_items") => archive = archiveAtCall
    /\ written =>
        archive = archiveAtCall \cup Added(batch, archiveAtCall, UtcNowIso(now), RawJson(payload))

\* C10 witness: an insert raised after an earlier insert of the batch had added a row
C10_Witness ==
    /\ pc = "raised"
    /\ raisedIn = "record_items"
    /\ idx >= 2
    /\ batch[1].identifier \notin RowIds(archiveAtCall)

InTransportLoop ==
    pc \in {"curl_warmup", "curl_target", "curl_next", "cs_warmup", "cs_target", "cs_next"}
AttemptsMade == made["curl_cffi"] + made["cloudscraper"]

\* C5: curl_cffi runs first (not at all when unavailable) and cloudscraper only after
\* curl_cffi made all its attempts; a strategy's attempts are numbered 1, 2, ... up to
\* `attempts`; the first target response with status < 400 ends the transport loop with
\* its body returned, so no request follows it; and fetch_news_html raises only when
\* every available strategy made `attempts` attempts that all failed.
C5_OrderedStrategiesFirstSuccessWins ==
    /\ \A s \in Strategies : made[s] <= attempts
    /\ ~curl_requests => made["curl_cffi"] = 0
    /\ (curl_requests /\ made["cloudscraper"] > 0) => made["curl_cffi"] = attempts
    /\ strategy # None => attempt = made[strategy]
    /\ okResponses <= 1
    /\ InTransportLoop => (okResponses = 0 /\ html = NoHtml)
    /\ (pc \in {"parse_news", "dedup"} \/ raisedIn = "parse_news") =>
            (okResponses = 1 /\ html # NoHtml /\ failed = AttemptsMade - 1)
    /\ raisedIn = "fetch_news_html" =>
        /\ okResponses = 0
        /\ made["cloudscraper"] = attempts
        /\ curl_requests => made["curl_cffi"] = attempts
        /\ failed = AttemptsMade

\* C5 witness: cloudscraper returned a body on a later attempt after curl_cffi was exhausted
C5_Witness ==
    /\ okResponses = 1
    /\ html # NoHtml
    /\ strategy = "cloudscraper"
    /\ attempt >= 2
    /\ made["curl_cffi"] = attempts

\* the scenario of C6: every attempt of curl_cffi got a 403 from the target, and
\* cloudscraper's second attempt got the first response with status < 400
C6_Scenario ==
    /\ curl_requests
    /\ made["curl_cffi"] >= 1
    /\ target403["curl_cffi"] = made["curl_cffi"]
    /\ strategy = "cloudscraper"
    /\ attempt = 2
    /\ okResponses = 1

\* C6 as stated: in that scenario 1 + 2 = 3 attempts were made in total.
C6_ThreeAttempts == C6_Scenario => AttemptsMade = 3

\* C6 amended: in that scenario the body is returned after exactly attempts + 2
\* attempts: all `attempts` of curl_cffi, then two of cloudscraper.
C6_AttemptsPlusTwo ==
    C6_Scenario => (html # NoHtml /\ AttemptsMade = attempts + 2 /\ attempts >= 2)

\* C6 witness: the scenario, with the default of more than one attempt per strategy
C6_Witness == C6_Scenario /\ made["curl_cffi"] >= 2

\* C7: an attempt whose warm-up GET failed (status >= 400 or exception) still issues
\* its target GET before the attempt ends.
C7_WarmupFailureNonFatal ==
    (pc \in {"curl_next", "cs_next"} /\ warmup \in {"status", "exception"}) => targetDone

\* C8: a document whose payload script is missing, empty or unparseable ends the call
\* with a FetchError raised by parse_news, after the one successful transport loop.
C8_PayloadFailureIsFetchError ==
    (html.script \in {"missing", "empty", "malformed"} /\ pc \notin {"parse_news"}) =>
        /\ raisedIn = "parse_news"
        /\ raised.type = "FetchError"
        /\ okResponses = 1

\* C9: the FetchError fetch_news_html raises on exhaustion carries the failure of the
\* last attempt of cloudscraper, the last strategy: its HTTP status together with the
\* target URL, or the text of its transport error.
C9_ExhaustedCarriesLastFailure ==
    raisedIn = "fetch_news_html" =>
        /\ raised.type = "FetchError"
        /\ lastFailure.strategy = "cloudscraper"
        /\ lastFailure.attempt = attempts
        /\ IF lastFailure.kind = "status"
           THEN raised.msg.status = lastFailure.status /\ raised.msg.url = PLAYER_NEWS_URL
           ELSE raised.msg.text = lastFailure.kind

\* C9 witness: exhaustion where curl_cffi's final error differs from the one raised
C9_Witness ==
    /\ raisedIn = "fetch_news_html"
    /\ lastFailure.kind = "status"
    /\ Len(errors) = 1
    /\ errors[1].msg # raised.msg

\* C11: a second call of record_items with the same batch, whatever its wall-clock time
\* and raw payload, leaves table `news` exactly as the first call left it.
C11_RecordItemsIdempotent ==
    (afterFirst.set /\ written) => archive = afterFirst.rows

\* C11 witness: the second call returned, at a later time and with another raw payload
\* than those of a row the first call inserted
C11_Witness ==
    /\ afterFirst.set
    /\ written
    /\ now = 2
    /\ \E r \in archive :
        /\ r.retrieved_at = UtcNowIso(1)
        /\ r.raw_json # RawJson(payload)
        /\ \E i \in 1..Len(batch) : batch[i].identifier = r.identifier

RunEnded == pc \in {"returned", "raised"}

\* C12: in run_forever the process never exits, whatever a run raised and wherever; a
\* started run ends; after a run ended (within the MaxRuns runs explored) the next run
\* starts; and a run starts only when the previous one has ended, its connection closed.
C12_LoopSurvivesEveryFailure ==
    /\ [](pc # "exit")
    /\ [](raisedIn # None => raisedIn \in {"fetch_news_html", "parse_news", "has_item",
                                           "record_items", "export_ledger", "send_news"})
    /\ (pc = "run_once") ~> RunEnded
    /\ (RunEnded /\ runs < MaxRuns) ~> (pc = "run_once")
    /\ [][pc' = "run_once" /\ pc # "run_once" => RunEnded /\ conn = ClosedConn /\ runs' = runs]_vars
    /\ [][runs' # runs => pc = "run_once" /\ runs' = runs + 1]_vars

\* C12 witness: a run is starting after the previous run failed in the notifier, past the
\* archive write
C12_Witness ==
    /\ pc = "run_once"
    /\ runs >= 1
    /\ raisedIn = "send_news"
    /\ archive # {}

\* the calls of run_once that precede the notifier
BeforeNotifier == {"fetch_news_html", "parse_news", "has_item", "record_items", "export_ledger"}

\* C13: an exception raised inside run_once leaves run_once (and, with --once, main) as
\* it was raised, and nothing of the run executes after it. A run whose fetch failed
\* called neither record_items nor export_ledger nor send_news, and the archive and the
\* ledger are as they were when the run started; a run whose archive read or write
\* failed did not call send_news.
C13_RunOnceSurfacesFirstError ==
    /\ []((pc \notin {"start", "run_once"} /\ html = NoHtml) =>
            /\ pc \in {"raised", "exit"}
            /\ raisedIn = "fetch_news_html"
            /\ raised \in FetchNewsHtmlFailures)
    /\ [](pc = "raised" => raised # NoError /\ raisedIn # None)
    /\ []((pc = "exit" /\ raisedIn # None) => raised # NoError)
    /\ []((pc \in {"raised", "exit"} /\ raisedIn \in {"fetch_news_html", "parse_news"}) =>
            /\ ~written
            /\ batch = <<>>
            /\ conn = ClosedConn
            /\ handed = <<>>
            /\ posts = <<>>)
    /\ []((pc \in {"raised", "exit"} /\ raisedIn \in BeforeNotifier) =>
            (handed = <<>> /\ posts = <<>>))
    /\ [][(pc \in {"run_once", "parse_news"}) => (archive' = archive /\ ledger' = ledger)]_vars
    /\ [][(pc = "raised") => (/\ archive' = archive
                              /\ ledger' = ledger
                              /\ pc' \in {"exit", "run_once"}
                              /\ (pc' = "exit") =>
                                    (raised' = raised /\ handed' = handed /\ posts' = posts))]_vars

\* C13 witness: with --once, on an archive and a ledger filled by earlier processes, the
\* fetch failed and the FetchError left main
C13_Witness ==
    /\ pc = "exit"
    /\ once
    /\ raisedIn = "fetch_news_html"
    /\ raised.type = "FetchError"
    /\ archive # {}
    /\ ledger # <<>>
    /\ ledger_path
    /\ ~dry_run

\* C14: when export_ledger raised, record_items had returned in that run and the archive
\* is what that call committed: the table at the call plus one row per batch record whose
\* identifier was absent, so every identifier of the batch is archived.
C14_ExportFailureKeepsArchiveWrite ==
    (pc \in {"raised", "exit"} /\ raisedIn = "export_ledger") =>
        /\ written
        /\ archive = archiveAtCall \cup Added(batch, archiveAtCall, UtcNowIso(now), RawJson(payload))
        /\ Ids(batch) \subseteq RowIds(archive)

\* C14 witness: export_ledger raised in a run whose record_items call added rows
C14_Witness ==
    /\ pc = "raised"
    /\ raisedIn = "export_ledger"
    /\ archive # archiveAtCall
    /\ Len(batch) >= 2

\* C15: the list parse_news returns has pairwise distinct identifiers and no record is
\* followed by one published later.
C15_DistinctAndNewestFirst ==
    pc = "dedup" =>
        \A i, j \in 1..Len(items) :
            i < j => /\ items[i].identifier # items[j].identifier
                     /\ ~Later(items[j].published, items[i].published)

\* C15 witness: three nodes visited oldest first, two of them with one identifier, gave
\* two records
C15_Witness ==
    /\ pc = "dedup"
    /\ Len(items) = 2
    /\ LET found == walk(html.payload) IN
        /\ Len(found) = 3
        /\ Later(found[2].published, found[1].published)
        /\ found[1].identifier = found[3].identifier

\* C16: for every identifier some visited node yielded a record for, the returned list
\* holds exactly one record, it is one of the yielded records, and none of the yielded
\* records with that identifier is published later.
C16_DedupKeepsLatest ==
    pc = "dedup" =>
        LET found == walk(html.payload) IN
        \A k \in 1..Len(found) :
            \E i \in 1..Len(items) :
                /\ items[i].identifier = found[k].identifier
                /\ \A j \in 1..Len(items) : items[j].identifier = found[k].identifier => j = i
                /\ \E m \in 1..Len(found) : found[m] = items[i]
                /\ ~Later(found[k].published, items[i].published)

\* C16 witness: identifier a was visited dated 2024-03-05 first and 2024-01-01 second,
\* and the one record kept is dated 2024-03-05
C16_Witness ==
    /\ pc = "dedup"
    /\ LET found == walk(html.payload) IN
        /\ Len(found) = 2
        /\ found[1].identifier = <<"a">>
        /\ found[2].identifier = <<"a">>
        /\ found[1].published = Naive(3, 0)
        /\ found[2].published = Naive(1, 0)
    /\ Len(items) = 1
    /\ items[1].published = Naive(3, 0)

\* every mapping of a payload tree, at any depth
RECURSIVE Mappings(_)
Mappings(node) ==
    IF node.t = "list"
    THEN UNION {Mappings(node.items[i]) : i \in 1..Len(node.items)}
    ELSE IF node.t = "dict"
    THEN {node} \cup UNION {Mappings(node.entries[i].v) : i \in 1..Len(node.entries)}
    ELSE {}

\* a valid news node: it has the three key groups, non-empty title, url and date, and a
\* date _parse_datetime accepts
WellFormed(node) ==
    /\ _candidate_news_dict(node)
    /\ Truthy(_extract_first(node, TitleKeys))
    /\ Truthy(_extract_first(node, UrlKeys))
    /\ Truthy(_extract_first(node, DateKeys))
    /\ _parse_datetime(StrOf(_extract_first(node, DateKeys))).ok

\* C17: when parse_news returns, every valid news node of the payload, however deep and
\* below whatever node, has its identifier in the returned list.
C17_NestedNodesAlwaysFound ==
    pc = "dedup" =>
        \A n \in Mappings(html.payload) :
            WellFormed(n) => _build_identifier(n) \in Ids(items)

\* C18: parse_news applied to a payload tree does not raise, and the identifiers it
\* returns are exactly those of the valid news nodes of the tree.
C18_MalformedNodesNeverRaise ==
    (html.script = "json" /\ pc # "parse_news") =>
        /\ raisedIn = None
        /\ Ids(items) = {_build_identifier(n) : n \in {m \in Mappings(html.payload) : WellFormed(m)}}

\* C19: every date text of the payload that _parse_datetime accepts comes back without
\* tzinfo, and so does the published instant of every record returned.
C19_ParseDatetimeUtcNaive ==
    pc = "dedup" =>
        /\ \A n \in Mappings(html.payload) :
            LET date_raw == _extract_first(n, DateKeys)
                parsed == _parse_datetime(StrOf(date_raw))
            IN  (Truthy(date_raw) /\ parsed.ok) => (~parsed.dt.aware /\ parsed.dt.off = 0)
        /\ \A i \in 1..Len(items) : ~items[i].published.aware

\* the concatenation of a sequence of lists
RECURSIVE Flatten(_)
Flatten(xss) == IF xss = <<>> THEN <<>> ELSE Head(xss) \o Flatten(Tail(xss))

\* C20: every request send_news gets accepted carries between 1 and 10 records; the
\* accepted requests, concatenated, are the beginning of the list handed to send_news, and
\* the whole list once send_news returned; when a request is answered with a status
\* >= 400 send_news raises with requests still unsent, and nothing is posted afterwards.
C20_ChunksOfTenInOrder ==
    /\ [](\A k \in 1..Len(posts) :
            Len(posts[k]) >= 1 /\ Len(posts[k]) <= MAX_EMBEDS_PER_REQUEST)
    /\ [](handed = <<>> => posts = <<>>)
    /\ [](handed # <<>> =>
            /\ Len(Flatten(posts)) <= Len(handed[1])
            /\ Flatten(posts) = SubSeq(handed[1], 1, Len(Flatten(posts))))
    /\ []((pc = "returned" /\ handed # <<>>) => Flatten(posts) = handed[1])
    /\ []((pc = "raised" /\ raisedIn = "send_news") =>
            /\ Len(Flatten(posts)) < Len(handed[1])
            /\ raised.type = "requests.HTTPError" => raised.msg.status >= 400)
    /\ [][(pc = "raised") => (posts' = posts)]_vars

\* C20 witness: 21 records went out as three accepted requests
C20_Witness ==
    /\ pc = "returned"
    /\ Len(handed) = 1
    /\ Len(handed[1]) = 21
    /\ Len(posts) = 3
    /\ Len(posts[3]) = 1

\* the url texts that carry a scheme (RFC 3986: letters, then ":")
HasScheme(url) ==
    url \in {"https://www.europeantour.com/news/a", "http://example.org/x",
             "ftp://example.org/f", "HTTPS://EXAMPLE.ORG/x"}

\* the absolute urls whose origin is BASE_URL
UnderBaseOrigin(url) ==
    url \in {"https://www.europeantour.com/news/a", "https://www.europeantour.com/news/b",
             "https://www.europeantour.com/news/c", "https://www.europeantour.com?page=2"}

\* C21: the url of every record parse_news returns is the node's url text itself when
\* that text carries a scheme, and an absolute url under https://www.europeantour.com
\* otherwise.
C21_UrlNormalised ==
    pc = "dedup" =>
        \A n \in Mappings(html.payload) :
            WellFormed(n) =>
                LET url_raw == StrOf(_extract_first(n, UrlKeys)) IN
                \E i \in 1..Len(items) :
                    /\ items[i].identifier = _build_identifier(n)
                    /\ items[i].url = _normalise_url(url_raw)
                    /\ IF HasScheme(url_raw) THEN items[i].url = url_raw
                       ELSE UnderBaseOrigin(items[i].url)

\* C22: within a strategy the deterministic term of the backoff sleep after attempt k + 1
\* is larger than the one after attempt k, the sleep lasts that term plus a jitter, and
\* no backoff sleep follows the last attempt of a strategy.
C22_BackoffGrows ==
    /\ \A i, j \in DOMAIN sleeps :
          (sleeps[i].strategy = sleeps[j].strategy
              /\ sleeps[j].attempt = sleeps[i].attempt + 1)
              => sleeps[j].sleep_for > sleeps[i].sleep_for
    /\ \A i \in DOMAIN sleeps : sleeps[i].attempt < attempts
    /\ sleeps # <<>> => slept >= sleeps[Len(sleeps)].sleep_for

\* C23: over the runs on one archive no identifier is in the list of more than one
\* send_news call; a list is handed to send_news only after the run's record_items
\* returned with its records in the table; and a run that has filtered its items has no
\* identifier of an earlier send_news call left among its new records.
C23_NotifiedAtMostOnce ==
    /\ \A id \in DOMAIN notifications : notifications[id] <= 1
    /\ \A k \in 1..Len(handed) : written /\ Ids(handed[k]) \subseteq RowIds(archive)
    /\ DOMAIN notifications \subseteq RowIds(archive)
    /\ (pc \in {"record_items", "insert", "export_ledger", "notify"})
          => Ids(new_items) \cap DOMAIN notifications = {}

\* a later run extracts a record an earlier run notified and notifies only the others
C23_Witness ==
    /\ pc = "returned"
    /\ runs >= 2
    /\ Len(handed) = 1
    /\ posts # <<>>
    /\ \E i \in 1..Len(items) :
          /\ items[i].identifier \in DOMAIN notifications
          /\ items[i].identifier \notin Ids(handed[1])

\* C24: an identifier that a run archived and that no accepted request of that run
\* carried (dry-run, export_ledger raised, send_news raised) is still in the table in
\* every later state and is in no list a later run hands to send_news.
C24_MissedNeverSent ==
    /\ missed \subseteq RowIds(archive)
    /\ \A k \in 1..Len(handed) : Ids(handed[k]) \cap missed = {}

\* a later run extracts a missed record again, notifies its new records and returns
C24_Witness ==
    /\ pc = "returned"
    /\ Len(handed) = 1
    /\ posts # <<>>
    /\ \E i \in 1..Len(items) :
          /\ items[i].identifier \in missed
          /\ items[i].identifier \notin Ids(new_items)

====
